---- MODULE Spec2Model ----
(***************************************************************************)
(* Model of the Phase 0 meta-analytics LangGraph                           *)
(* (src/src/workflows/meta_workflow.py) and of the aggregation it calls    *)
(* (src/src/analytics/meta_analytics.py).                                  *)
(*                                                                         *)
(* The state is the MetaState dictionary threaded through the graph plus   *)
(* the node the graph runs next (pc).  The environment the program talks   *)
(* to (player-list provider, battle-history provider + format filter,      *)
(* archetype classifier, Python's global random generator) is the `world`  *)
(* and `rng` state: both are chosen in Init and the program never writes   *)
(* `world`.                                                                *)
(***************************************************************************)
EXTENDS Integers, Sequences, FiniteSets, TLC

\* ------------------------------------------------------------------------
\* Program constants
\* ------------------------------------------------------------------------
MIN_TOTAL_BATTLES == 2000
MIN_GAMES_PER_TYPE == 200
\* literals of the nodes: min(250, ...), min(5, ...), loop_count >= 20,
\* min(len(normalized), 10), fetch_top_players(limit=1000)
INITIAL_SAMPLE_SIZE == 250
MORE_SAMPLE_SIZE == 5
MAX_LOOPS == 20
RECENT_CAP == 10
TOP_PLAYERS_LIMIT == 1000
\* build_meta_matchup_summary(matchups, min_matchup_games=30)
MIN_MATCHUP_GAMES == 30

DECK_TYPES == <<"Bait", "Beatdown", "Bridge Spam", "Cycle", "Hybrid", "Siege">>
REQUIRED_DECK_TYPES_LOWER == <<"siege", "bait", "cycle", "bridge spam", "beatdown">>

\* ------------------------------------------------------------------------
\* Bounds of the model
\* ------------------------------------------------------------------------
\* largest player pool the provider returns
MaxPool == 352
\* longest list of qualifying matches one player has
MaxLog == 12
\* number of distinct states of the random generator
NumSeeds == 2

\* ------------------------------------------------------------------------
\* Generic helpers
\* ------------------------------------------------------------------------
Min(a, b) == IF a <= b THEN a ELSE b
Max(a, b) == IF a >= b THEN a ELSE b
Range(s) == {s[i] : i \in 1..Len(s)}
Reverse(s) == [i \in 1..Len(s) |-> s[Len(s) + 1 - i]]
\* the list a comprehension builds, element by element
List(f) == SubSeq(f, 1, Len(f))
\* an empty Python dict
EmptyDict == [k \in {} |-> 0]
\* str.lower() on the archetype labels the classifier can return
Lower(t) ==
    CASE t = "Bait" -> "bait"
      [] t = "Beatdown" -> "beatdown"
      [] t = "Bridge Spam" -> "bridge spam"
      [] t = "Cycle" -> "cycle"
      [] t = "Hybrid" -> "hybrid"
      [] t = "Siege" -> "siege"
      [] OTHER -> t

\* ------------------------------------------------------------------------
\* The environment
\* ------------------------------------------------------------------------
TagModes == {"distinct", "mixed"}
Mixes == {"balanced", "skewed", "dirty"}
FailModes == {"none", "some", "all"}

\* the pool the loop can use up in exactly MAX_LOOPS increments
LoopPool == INITIAL_SAMPLE_SIZE + MAX_LOOPS * MORE_SAMPLE_SIZE

WorldsOf(sizes, tags, lens, mixes, fails) ==
    [size : sizes, tags : tags, len : lens, mix : mixes, fail : fails,
     provider_ok : {TRUE}, response : {"list"}]

\* The environments explored.  Pools below, at and above the initial sample
\* size and the loop cap; battle logs shorter and longer than RECENT_CAP.
\* Long battle logs are paired with few pools only: every coverage check
\* re-aggregates the whole collected list.
Worlds ==
    \* small pools, every kind of log
    WorldsOf({0, 3}, TagModes, {1, 8, MaxLog}, Mixes, FailModes)
    \* pools around the initial sample size, short logs
    \cup WorldsOf({INITIAL_SAMPLE_SIZE, INITIAL_SAMPLE_SIZE + 7}, TagModes, {1},
                  {"dirty"}, FailModes)
    \* a pool of exactly the initial sample size with long logs
    \cup WorldsOf({INITIAL_SAMPLE_SIZE}, {"distinct"}, {MaxLog}, Mixes, {"none"})
    \* enough battles in total but not of every required type, pool not used up
    \cup WorldsOf({INITIAL_SAMPLE_SIZE + 7}, {"distinct"}, {MaxLog}, {"skewed"}, {"none"})
    \* thresholds crossed right at the first check or one increment later
    \cup WorldsOf({INITIAL_SAMPLE_SIZE + 7}, {"distinct"}, {8}, {"balanced"}, {"none"})
    \* pools that reach the loop cap, short logs
    \cup WorldsOf({LoopPool - 4, MaxPool}, TagModes, {1}, {"balanced"}, FailModes)
    \* thresholds crossed only by increment MAX_LOOPS
    \cup WorldsOf({LoopPool}, {"distinct"}, {6}, {"balanced"}, {"none"})
    \* one archetype far rarer than the others
    \cup WorldsOf({INITIAL_SAMPLE_SIZE}, {"distinct"}, {MaxLog}, {"rare"}, {"none"})
    \* distinct tags, some players without a tag, some fetches failing
    \cup WorldsOf({8, INITIAL_SAMPLE_SIZE + 7}, {"gaps"}, {1}, {"balanced"}, {"some"})
    \* the player-list provider fails: the request raises, the provider hands
    \* back None, or the response has no "items"
    \cup [size : {0}, tags : {"distinct"}, len : {1}, mix : {"balanced"},
          fail : {"none"}, provider_ok : {FALSE},
          response : {"raises", "none", "no_items"}]

\* tag of the player at pool index i (0-based); 0 is a missing or empty tag.
\* "mixed" pools have tag-less players and tags that occur at two indices,
\* "gaps" pools have tag-less players and no tag twice.
TagAt(w, i) ==
    IF w.tags = "distinct" THEN i + 1
    ELSE IF w.tags = "gaps" THEN (IF i % 7 = 3 THEN 0 ELSE i + 1)
    ELSE IF i % 7 = 3 THEN 0
    ELSE IF i % 5 = 4 THEN i
    ELSE i + 1

\* the list the player-list provider returns
PoolOf(w) == [i \in 1..Min(w.size, TOP_PLAYERS_LIMIT) |-> [tag |-> TagAt(w, i - 1)]]

\* number of qualifying (ranked 1v1) matches in the battle log of a tag
QualLen(w, tag) == IF tag > INITIAL_SAMPLE_SIZE THEN w.len - 1 ELSE w.len

\* does get_player_battlelog / filter_and_normalize_ranked_1v1 raise for tag
FetchFails(w, tag) ==
    CASE w.fail = "none" -> FALSE
      [] w.fail = "some" -> tag % 4 = 1
      [] OTHER -> TRUE

Deck(n, t) == [size |-> n, sig |-> t]

\* the j-th most recent qualifying match of a tag, as the normalizer returns it
BattleOf(w, tag, j) ==
    LET required == <<"Bait", "Beatdown", "Bridge Spam", "Cycle", "Siege">>
        my  == CASE w.mix \in {"balanced", "rare"} -> required[((tag + j) % 5) + 1]
                 [] w.mix = "skewed" -> "Hybrid"
                 [] OTHER -> DECK_TYPES[((tag + j) % 6) + 1]
        opp == CASE w.mix = "balanced" -> required[((tag + 2 * j) % 5) + 1]
                 [] w.mix = "skewed" -> IF j % 2 = 0 THEN "Siege" ELSE "Hybrid"
                 [] w.mix = "rare" -> IF tag % 25 = 0 THEN "Hybrid"
                                      ELSE required[((tag + 2 * j) % 5) + 1]
                 [] OTHER -> DECK_TYPES[((tag + 3 * j) % 6) + 1]
        res == IF w.mix = "dirty" /\ j % 4 = 0 THEN "unknown"
               ELSE <<"win", "loss", "draw">>[((tag + j) % 3) + 1]
        mysize == IF w.mix = "dirty" /\ j % 4 = 1 THEN 7 ELSE 8
        oppsize == IF w.mix = "dirty" /\ j % 4 = 2 THEN 9 ELSE 8
    IN  [battle_time |-> <<tag, j>>, result |-> res,
         my_cards |-> Deck(mysize, my), opp_cards |-> Deck(oppsize, opp)]

\* filter_and_normalize_ranked_1v1(get_player_battlelog(tag)), most recent first
NormalizedLog(w, tag) == [j \in 1..QualLen(w, tag) |-> BattleOf(w, tag, j)]

\* the archetype classifier: total, one label per deck
_classify_deck(cards) == cards.sig

\* random.sample(population, k): k distinct elements of the list, in an order
\* that the generator state r decides
Shuffle(pop, r) ==
    LET n == Len(pop)
        half == (n + 1) \div 2
    IN  CASE r % 3 = 0 -> Reverse(pop)
          [] r % 3 = 1 -> [i \in 1..n |-> IF i <= half THEN pop[2 * i - 1]
                                          ELSE pop[2 * (i - half)]]
          [] OTHER -> pop
random_sample(pop, k, r) == SubSeq(Shuffle(pop, r), 1, k)
NextSeed(r) == (r + 1) % NumSeeds


\* ------------------------------------------------------------------------
\* State
\* ------------------------------------------------------------------------
VARIABLES
    pc,                   \* node the graph runs next, "END", or "raised"
    top_players,          \* MetaState keys
    selected_players,
    used_player_indices,
    fetched_player_tags,
    meta_raw_battles,     \* normalized_battles is the same list object
    meta_analytics,
    is_balanced,
    loop_count,
    stop_decision,
    notes,
    meta_table,
    meta_llm_tables,
    world,                \* the environment of this run
    rng,                  \* state of Python's global random generator
    drawn,                \* history: the index lists the samplers drew, in order
    merge_log,            \* history: tags whose battles were merged, in order
    attempt_log           \* history: tags whose battle log was requested, in order

vars == <<pc, top_players, selected_players, used_player_indices,
          fetched_player_tags, meta_raw_battles, meta_analytics, is_balanced,
          loop_count, stop_decision, notes, meta_table, meta_llm_tables,
          world, rng, drawn, merge_log, attempt_log>>

Note(text, arg) == [text |-> text, arg |-> arg]

\* ------------------------------------------------------------------------
\* sample_initial_node / sample_more_5_node
\* ------------------------------------------------------------------------
\* list(range(len(top_players)))
AllIndices(tp) == [i \in 1..Len(tp) |-> i - 1]

\* [top_players[i] for i in indices]
PlayersAt(tp, indices) == [k \in 1..Len(indices) |-> tp[indices[k] + 1]]

InitialSampleSize(all_indices) == Min(INITIAL_SAMPLE_SIZE, Len(all_indices))

sample_initial_node(tp, used, nts, r) ==
    IF Len(tp) = 0
    THEN [selected_players |-> <<>>, used_player_indices |-> used,
          notes |-> Append(nts, Note("sample_initial: WARNING top_players is empty", 0)),
          sampled |-> <<>>, drew |-> FALSE]
    ELSE LET all_indices == AllIndices(tp)
             sample_size == InitialSampleSize(all_indices)
             sampled_indices == random_sample(all_indices, sample_size, r)
         IN  [selected_players |-> PlayersAt(tp, sampled_indices),
              used_player_indices |-> used \cup Range(sampled_indices),
              notes |-> Append(nts, Note("sample_initial: sampled", sample_size)),
              sampled |-> sampled_indices, drew |-> TRUE]

\* mutant: the increment sample forgets which indices are used
UnusedIndices_All(tp, used) == AllIndices(tp)

\* [i for i in all_indices if i not in used_indices]
UnusedIndices(tp, used) ==
    LET keep(i) == i \notin used IN SelectSeq(AllIndices(tp), keep)

MoreSampleSize(unused_indices) == Min(MORE_SAMPLE_SIZE, Len(unused_indices))

\* mutant: the increment sample does not mark its indices as used
SampleMoreFrom_NotMarked(tp, used, lc, nts, r, unused_indices) ==
    LET sample_size == MoreSampleSize(unused_indices)
        new_indices == random_sample(unused_indices, sample_size, r)
    IN  [selected_players |-> PlayersAt(tp, new_indices),
         used_player_indices |-> used,
         loop_count |-> lc + 1,
         notes |-> Append(nts, Note("sample_more_5: loop", lc + 1)),
         sampled |-> new_indices, drew |-> TRUE]

\* lines 278-295: draw from the unused indices and count the loop
SampleMoreFrom(tp, used, lc, nts, r, unused_indices) ==
    LET sample_size == MoreSampleSize(unused_indices)
        new_indices == random_sample(unused_indices, sample_size, r)
    IN  [selected_players |-> PlayersAt(tp, new_indices),
         used_player_indices |-> used \cup Range(new_indices),
         loop_count |-> lc + 1,
         notes |-> Append(nts, Note("sample_more_5: loop", lc + 1)),
         sampled |-> new_indices, drew |-> TRUE]

\* mutant: no early return when no unused index is left
sample_more_5_node_NoEmptyReturn(tp, used, lc, nts, r) ==
    IF Len(tp) = 0
    THEN [selected_players |-> <<>>, used_player_indices |-> used, loop_count |-> lc,
          notes |-> Append(nts, Note("sample_more_5: WARNING top_players is empty", 0)),
          sampled |-> <<>>, drew |-> FALSE]
    ELSE SampleMoreFrom(tp, used, lc, nts, r, UnusedIndices(tp, used))

sample_more_5_node(tp, used, lc, nts, r) ==
    IF Len(tp) = 0
    THEN [selected_players |-> <<>>, used_player_indices |-> used, loop_count |-> lc,
          notes |-> Append(nts, Note("sample_more_5: WARNING top_players is empty", 0)),
          sampled |-> <<>>, drew |-> FALSE]
    ELSE LET unused_indices == UnusedIndices(tp, used)
         IN  IF Len(unused_indices) = 0
             THEN [selected_players |-> <<>>, used_player_indices |-> used,
                   loop_count |-> lc,
                   notes |-> Append(nts, Note("sample_more_5: no unused players left", 0)),
                   sampled |-> <<>>, drew |-> FALSE]
             ELSE SampleMoreFrom(tp, used, lc, nts, r, unused_indices)

\* ------------------------------------------------------------------------
\* fetch_meta_battles_node
\* ------------------------------------------------------------------------
\* mutant: the collector never skips a tag
AlreadyFetched_Never(tag, fetched_tags) == FALSE

AlreadyFetched(tag, fetched_tags) == tag \in fetched_tags

\* mutant: the collector takes the whole normalized log
RecentRanked_All(normalized) == normalized

\* normalized[:min(len(normalized), 10)]
RecentRanked(normalized) == SubSeq(normalized, 1, Min(Len(normalized), RECENT_CAP))

\* mutant: a failed player is marked as fetched
OnFetchError_MarksFetched(acc, tag) ==
    [acc EXCEPT !.notes = Append(@, Note("fetch_meta_battles: error fetching", tag)),
                !.fetched_tags = @ \cup {tag},
                !.attempts = Append(@, tag)]

\* except Exception as e: notes.append(...), then the next player
OnFetchError(acc, tag) ==
    [acc EXCEPT !.notes = Append(@, Note("fetch_meta_battles: error fetching", tag)),
                !.attempts = Append(@, tag)]

\* the body of "for player in selected" for one player
FetchStep(w, player, acc) ==
    LET tag == player.tag IN
    IF tag = 0 THEN acc
    ELSE IF AlreadyFetched(tag, acc.fetched_tags) THEN acc
    ELSE IF FetchFails(w, tag) THEN OnFetchError(acc, tag)
    ELSE LET recent_ranked == RecentRanked(NormalizedLog(w, tag))
         IN  [acc EXCEPT !.meta_raw = @ \o recent_ranked,
                         !.new_battle_count = @ + Len(recent_ranked),
                         !.new_player_count = @ + 1,
                         !.fetched_tags = @ \cup {tag},
                         !.merged = Append(@, tag),
                         !.attempts = Append(@, tag)]

\* mutant: the step returns after the first player of the batch
FetchLoop_FirstOnly(w, selected, lo, hi, acc) ==
    IF lo > hi THEN acc ELSE FetchStep(w, selected[lo], acc)

\* the loop over selected[lo..hi], in list order (split in halves to keep
\* the evaluation shallow)
RECURSIVE FetchLoop(_, _, _, _, _)
FetchLoop(w, selected, lo, hi, acc) ==
    IF lo > hi THEN acc
    ELSE IF lo = hi THEN FetchStep(w, selected[lo], acc)
    ELSE LET mid == (lo + hi) \div 2
             first_half == FetchLoop(w, selected, lo, mid, acc)
         IN  \* the test only orders the evaluation: first half, then second
             IF Len(first_half.attempts) >= 0
             THEN FetchLoop(w, selected, mid + 1, hi, first_half)
             ELSE acc

\* mutant: the step starts from an empty list instead of the collected one
fetch_meta_battles_node_FreshList(w, selected, nts, meta_raw, fetched_tags) ==
    IF Len(selected) = 0
    THEN [meta_raw_battles |-> meta_raw, fetched_player_tags |-> fetched_tags,
          notes |-> Append(nts, Note("fetch_meta_battles: no selected_players", 0)),
          merged |-> <<>>, attempts |-> <<>>]
    ELSE LET done == FetchLoop(w, selected, 1, Len(selected),
                        [meta_raw |-> <<>>, fetched_tags |-> fetched_tags,
                         notes |-> nts, new_battle_count |-> 0,
                         new_player_count |-> 0, merged |-> <<>>, attempts |-> <<>>])
         IN  [meta_raw_battles |-> done.meta_raw,
              fetched_player_tags |-> done.fetched_tags,
              notes |-> Append(done.notes,
                           Note("fetch_meta_battles: fetched", done.new_battle_count)),
              merged |-> done.merged, attempts |-> done.attempts]

fetch_meta_battles_node(w, selected, nts, meta_raw, fetched_tags) ==
    IF Len(selected) = 0
    THEN [meta_raw_battles |-> meta_raw, fetched_player_tags |-> fetched_tags,
          notes |-> Append(nts, Note("fetch_meta_battles: no selected_players", 0)),
          merged |-> <<>>, attempts |-> <<>>]
    ELSE LET done == FetchLoop(w, selected, 1, Len(selected),
                        [meta_raw |-> meta_raw, fetched_tags |-> fetched_tags,
                         notes |-> nts, new_battle_count |-> 0,
                         new_player_count |-> 0, merged |-> <<>>, attempts |-> <<>>])
         IN  [meta_raw_battles |-> done.meta_raw,
              fetched_player_tags |-> done.fetched_tags,
              notes |-> Append(done.notes,
                           Note("fetch_meta_battles: fetched", done.new_battle_count)),
              merged |-> done.merged, attempts |-> done.attempts]


\* ------------------------------------------------------------------------
\* compute_meta_analytics (src/analytics/meta_analytics.py)
\* ------------------------------------------------------------------------
RECURSIVE GCD(_, _)
GCD(a, b) == IF b = 0 THEN a ELSE GCD(b, a % b)

\* the float a / b for integers a >= 0, b > 0: equal floats iff equal fractions
Float(a, b) == LET g == GCD(a, b) IN [num |-> a \div g, den |-> b \div g]
Zero == [num |-> 0, den |-> 1]
FloatLeq(x, y) == x.num * y.den <= y.num * x.den

\* pd.DataFrame(list of dicts): a record without a key holds a null there
NaN == "NaN"
NullCards == [size |-> 0, sig |-> NaN]
Column(battle, key, null) == IF key \in DOMAIN battle THEN battle[key] ELSE null

\* df[col].apply(_classify_deck): for a null the classifier of deck_type.py
\* either raises or answers with a label, as the environment has it
ApplyClassifyRaises(cards) == cards = NullCards /\ world.null_deck = "raise"
ApplyClassify(cards) ==
    IF cards = NullCards THEN world.null_deck ELSE _classify_deck(cards)

\* mutant: the result is not flipped for the opponent's row
_flip_result_Identity(res) == res

_flip_result(res) ==
    IF res = "win" THEN "loss"
    ELSE IF res = "loss" THEN "win"
    ELSE "draw"

\* mutant: only the row from my point of view is recorded for a game
MatchupRows_MyPovOnly(df) ==
    List([k \in 1..Len(df) |->
        [deck_type |-> df[k].my_deck_type, opp_type |-> df[k].opp_deck_type,
         result |-> df[k].result]])

\* mutant: the first game of the list gets no rows
MatchupRows_SkipFirst(df) ==
    List([k \in 1..(2 * (Len(df) - 1)) |->
        LET g == df[((k + 1) \div 2) + 1] IN
        IF k % 2 = 1
        THEN [deck_type |-> g.my_deck_type, opp_type |-> g.opp_deck_type,
              result |-> g.result]
        ELSE [deck_type |-> g.opp_deck_type, opp_type |-> g.my_deck_type,
              result |-> _flip_result(g.result)]])

\* mutant: the opponent's row keeps the attacker and the defender in place
MatchupRows_NoSwap(df) ==
    List([k \in 1..(2 * Len(df)) |->
        LET g == df[(k + 1) \div 2] IN
        IF k % 2 = 1
        THEN [deck_type |-> g.my_deck_type, opp_type |-> g.opp_deck_type,
              result |-> g.result]
        ELSE [deck_type |-> g.my_deck_type, opp_type |-> g.opp_deck_type,
              result |-> _flip_result(g.result)]])

\* the two rows per game of _build_symmetric_matchup_matrix: row 2i-1 is game
\* i from my point of view, row 2i from the opponent's
MatchupRows(df) ==
    List([k \in 1..(2 * Len(df)) |->
        LET g == df[(k + 1) \div 2] IN
        IF k % 2 = 1
        THEN [deck_type |-> g.my_deck_type, opp_type |-> g.opp_deck_type,
              result |-> g.result]
        ELSE [deck_type |-> g.opp_deck_type, opp_type |-> g.my_deck_type,
              result |-> _flip_result(g.result)]])

\* one cell of the groupby(["deck_type", "opp_type"]) aggregation
MatchupCell(rows, group) ==
    LET games == Cardinality({k \in group : rows[k].result # NaN})
        wins == Cardinality({k \in group : rows[k].result = "win"})
        losses == Cardinality({k \in group : rows[k].result = "loss"})
        draws == Cardinality({k \in group : rows[k].result = "draw"})
    IN  [games |-> games, wins |-> wins, losses |-> losses, draws |-> draws,
         win_rate |-> Float(wins, IF games > 0 THEN games ELSE 1)]

_build_symmetric_matchup_matrix(df) ==
    IF Len(df) = 0 THEN EmptyDict
    ELSE LET rows == MatchupRows(df)
             idx == 1..Len(rows)
             by_deck == [a \in {rows[k].deck_type : k \in idx} |->
                            {k \in idx : rows[k].deck_type = a}]
         IN  [a \in DOMAIN by_deck |->
                [d \in {rows[k].opp_type : k \in by_deck[a]} |->
                    MatchupCell(rows, {k \in by_deck[a] : rows[k].opp_type = d})]]

\* df[col].value_counts().to_dict(), then setdefault(archetype, 0)
DeckTypeCounts(df, col) ==
    LET idx == 1..Len(df)
        present == {df[i][col] : i \in idx}
    IN  [t \in present \cup Range(DECK_TYPES) |->
            Cardinality({i \in idx : df[i][col] = t})]

EmptyAnalytics ==
    [summary |-> [games_played |-> 0, wins |-> 0, losses |-> 0, draws |-> 0,
                  win_rate |-> Zero],
     deck_type_counts_my |-> EmptyDict,
     deck_type_counts_opp |-> EmptyDict,
     deck_type_matchups |-> EmptyDict]

\* lines 160-208: the analytics of a DataFrame of battles; [raised, value],
\* raised is the ValueError of a missing column or an error of the classifier
AnalyticsOf(normalized_battles) ==
    LET n == Len(normalized_battles)
        idx == 1..n
        columns == UNION {DOMAIN normalized_battles[i] : i \in idx}
    IN  IF "result" \notin columns
        THEN [raised |-> TRUE, value |-> EmptyDict]
        ELSE IF "my_cards" \notin columns \/ "opp_cards" \notin columns
        THEN [raised |-> TRUE, value |-> EmptyDict]
        ELSE
        LET result == [i \in idx |-> Column(normalized_battles[i], "result", NaN)]
            my_cards == [i \in idx |->
                            Column(normalized_battles[i], "my_cards", NullCards)]
            opp_cards == [i \in idx |->
                            Column(normalized_battles[i], "opp_cards", NullCards)]
            wins == Cardinality({i \in idx : result[i] = "win"})
            losses == Cardinality({i \in idx : result[i] = "loss"})
            draws == Cardinality({i \in idx : result[i] = "draw"})
            games == n
        IN  IF \E i \in idx : \/ ApplyClassifyRaises(my_cards[i])
                              \/ ApplyClassifyRaises(opp_cards[i])
            THEN [raised |-> TRUE, value |-> EmptyDict]
            ELSE
            LET df == List([i \in idx |->
                         [result |-> result[i],
                          my_deck_type |-> ApplyClassify(my_cards[i]),
                          opp_deck_type |-> ApplyClassify(opp_cards[i])]])
            IN  [raised |-> FALSE,
                 value |->
                   [summary |-> [games_played |-> games, wins |-> wins,
                                 losses |-> losses, draws |-> draws,
                                 win_rate |-> IF games > 0 THEN Float(wins, games)
                                              ELSE Zero],
                    deck_type_counts_my |-> DeckTypeCounts(df, "my_deck_type"),
                    deck_type_counts_opp |-> DeckTypeCounts(df, "opp_deck_type"),
                    deck_type_matchups |-> _build_symmetric_matchup_matrix(df)]]

\* mutant: no early return for an empty battle list
compute_meta_analytics_NoEmptyReturn(normalized_battles) ==
    AnalyticsOf(normalized_battles)

compute_meta_analytics(normalized_battles) ==
    IF Len(normalized_battles) = 0
    THEN [raised |-> FALSE, value |-> EmptyAnalytics]
    ELSE AnalyticsOf(normalized_battles)

\* ------------------------------------------------------------------------
\* check_enough_battles_node
\* ------------------------------------------------------------------------
DictGet(d, k, default) == IF k \in DOMAIN d THEN d[k] ELSE default

\* summary.get("games_played", len(meta_raw_battles))
GamesTotal(meta, meta_raw) ==
    DictGet(DictGet(meta, "summary", EmptyDict), "games_played", Len(meta_raw))

\* my + opp counts per key, keys lowercased
DeckCountsLower(meta) ==
    LET my_counts_raw == DictGet(meta, "deck_type_counts_my", EmptyDict)
        opp_counts_raw == DictGet(meta, "deck_type_counts_opp", EmptyDict)
        all_keys == DOMAIN my_counts_raw \cup DOMAIN opp_counts_raw
        combined_counts_raw ==
            [k \in all_keys |-> DictGet(my_counts_raw, k, 0)
                                + DictGet(opp_counts_raw, k, 0)]
    IN  [t \in {Lower(k) : k \in all_keys} |->
            combined_counts_raw[CHOOSE k \in all_keys : Lower(k) = t]]

\* the required types whose combined count is below MIN_GAMES_PER_TYPE
InsufficientTypes(meta) ==
    LET deck_counts_lower == DeckCountsLower(meta)
    IN  {t \in Range(REQUIRED_DECK_TYPES_LOWER) :
            DictGet(deck_counts_lower, t, 0) < MIN_GAMES_PER_TYPE}

\* mutant: the remaining players are counted without the used indices
Remaining_IgnoresUsed(tp, used) == Len(tp)

Remaining(tp, used) == Max(0, Len(tp) - Cardinality(used))

\* mutant: the loop cap is tested with > instead of >=
Decide_OffByOne(enough_total, enough_per_type, remaining, lc) ==
    IF enough_total /\ enough_per_type THEN "enough"
    ELSE IF remaining <= 0 \/ lc > MAX_LOOPS THEN "stop"
    ELSE "need_more"

\* mutant: the loop cap is not tested
Decide_NoCap(enough_total, enough_per_type, remaining, lc) ==
    IF enough_total /\ enough_per_type THEN "enough"
    ELSE IF remaining <= 0 THEN "stop"
    ELSE "need_more"

\* mutant: the exhausted pool is not tested
Decide_IgnoresPool(enough_total, enough_per_type, remaining, lc) ==
    IF enough_total /\ enough_per_type THEN "enough"
    ELSE IF lc >= MAX_LOOPS THEN "stop"
    ELSE "need_more"

\* mutant: the stop rule is evaluated before the enough rule
Decide_StopFirst(enough_total, enough_per_type, remaining, lc) ==
    IF remaining <= 0 \/ lc >= MAX_LOOPS THEN "stop"
    ELSE IF enough_total /\ enough_per_type THEN "enough"
    ELSE "need_more"

Decide(enough_total, enough_per_type, remaining, lc) ==
    IF enough_total /\ enough_per_type THEN "enough"
    ELSE IF remaining <= 0 \/ lc >= MAX_LOOPS THEN "stop"
    ELSE "need_more"

check_enough_battles_node(meta, meta_raw, tp, used, lc, nts) ==
    LET games_total == GamesTotal(meta, meta_raw)
        insufficient_types == InsufficientTypes(meta)
        enough_total == games_total >= MIN_TOTAL_BATTLES
        enough_per_type == insufficient_types = {}
        decision == Decide(enough_total, enough_per_type, Remaining(tp, used), lc)
    IN  [is_balanced |-> decision = "enough",
         stop_decision |-> decision,
         notes |-> Append(nts,
            Note(CASE decision = "enough" -> "check_enough_battles: enough data"
                   [] decision = "stop" -> "check_enough_battles: stopping"
                   [] OTHER -> "check_enough_battles: need more data",
                 games_total))]

route_after_check_enough(decision) ==
    IF decision \in {"enough", "need_more", "stop"} THEN decision ELSE "stop"

\* mutant: the "stop" edge leads back into the loop
ConditionalEdge_StopLoops(edge) ==
    CASE edge = "enough" -> "standardize_meta_table"
      [] edge = "stop" -> "sample_more_5"
      [] edge = "need_more" -> "sample_more_5"

\* the mapping of add_conditional_edges("check_enough_battles", ...)
\* mutant: "need_more" leaves the loop as well
ConditionalEdge_NeedMoreExits(edge) == "standardize_meta_table"

ConditionalEdge(edge) ==
    CASE edge = "enough" -> "standardize_meta_table"
      [] edge = "stop" -> "standardize_meta_table"
      [] edge = "need_more" -> "sample_more_5"


\* ------------------------------------------------------------------------
\* Post-loop nodes: standardize_meta_table, build_meta_llm_tables,
\* generate_meta_plots
\* ------------------------------------------------------------------------
\* stable sort of the rows by games, largest first (sorted(..., reverse=True))
\* mutant: the rows are left in the order they were built
SortedByGamesDesc_Unsorted(rows) == rows

SortedByGamesDesc(rows) ==
    LET n == Len(rows)
        rank(i) == 1 + Cardinality({j \in 1..n : rows[j].games > rows[i].games})
                     + Cardinality({j \in 1..(i - 1) : rows[j].games = rows[i].games})
    IN  List([p \in 1..n |-> rows[CHOOSE i \in 1..n : rank(i) = p]])

\* isinstance(cards, list) for battle.get(key)
IsList(battle, key) == key \in DOMAIN battle

WellFormed(battle) ==
    /\ IsList(battle, "my_cards") /\ IsList(battle, "opp_cards")
    /\ DictGet(battle, "result", "None") \in {"win", "loss", "draw"}

\* one row per participant of every battle that is not skipped
build_standardized_meta_table(normalized_battles) ==
    LET keep(i) == WellFormed(normalized_battles[i + 1])
        kept == SelectSeq(AllIndices(normalized_battles), keep)
    IN  List([k \in 1..(2 * Len(kept)) |->
            LET idx == kept[(k + 1) \div 2]
                battle == normalized_battles[idx + 1]
                opp_result == _flip_result(battle.result)
            IN  IF k % 2 = 1
                THEN [battle_id |-> DictGet(battle, "battle_id", idx),
                      battle_index |-> idx,
                      deck_type |-> _classify_deck(battle.my_cards),
                      role |-> "my", result |-> battle.result,
                      is_win |-> battle.result = "win"]
                ELSE [battle_id |-> DictGet(battle, "battle_id", idx),
                      battle_index |-> idx,
                      deck_type |-> _classify_deck(battle.opp_cards),
                      role |-> "opp", result |-> opp_result,
                      is_win |-> opp_result = "win"]])

standardize_meta_table_node(meta_raw, mt, nts) ==
    IF Len(meta_raw) = 0
    THEN [meta_table |-> mt,
          notes |-> Append(nts, Note("standardize_meta_table: no battles", 0))]
    ELSE LET built == build_standardized_meta_table(meta_raw)
         IN  [meta_table |-> built,
              notes |-> Append(nts, Note("standardize_meta_table: built", Len(built)))]

\* mutant: the share is given in percent
MetaShare_Percent(games, total_games) == Float(100 * games, total_games)

\* rec["meta_share"] = games / total_games if total_games > 0 else 0.0
MetaShare(games, total_games) ==
    IF total_games > 0 THEN Float(games, total_games) ELSE Zero

\* one row per deck type of the participant table, most games first
build_meta_deck_summary(mt, min_games_per_type) ==
    LET \* dict order of stats: deck types by first appearance in meta_table
        is_first(k) == \A j \in 1..(k - 1) : mt[j].deck_type # mt[k].deck_type
        firsts == SelectSeq(List([k \in 1..Len(mt) |-> k]), is_first)
        total_games == LET sum == Len(mt) IN IF sum = 0 THEN 1 ELSE sum
        rec(t) ==
            LET of == {k \in 1..Len(mt) : mt[k].deck_type = t}
                games == Cardinality(of)
                wins == Cardinality({k \in of : mt[k].result = "win"})
                losses == Cardinality({k \in of : mt[k].result = "loss"})
                draws == Cardinality({k \in of : mt[k].result = "draw"})
            IN  [deck_type |-> t, games |-> games, wins |-> wins,
                 losses |-> losses, draws |-> draws,
                 meta_share |-> MetaShare(games, total_games),
                 win_rate |-> IF games > 0 THEN Float(wins, games) ELSE Zero,
                 sample_ok |-> games >= min_games_per_type]
        stats == List([p \in 1..Len(firsts) |-> rec(mt[firsts[p]].deck_type)])
    IN  IF Len(stats) = 0 THEN <<>> ELSE SortedByGamesDesc(stats)

\* neutral + margin = 0.55, neutral - margin = 0.45
\* mutant: the margins are strict
_label_advantage_Strict(win_rate) ==
    IF ~FloatLeq(win_rate, [num |-> 55, den |-> 100]) THEN "favored"
    ELSE IF ~FloatLeq([num |-> 45, den |-> 100], win_rate) THEN "unfavored"
    ELSE "even"

_label_advantage(win_rate) ==
    IF FloatLeq([num |-> 55, den |-> 100], win_rate) THEN "favored"
    ELSE IF FloatLeq(win_rate, [num |-> 45, den |-> 100]) THEN "unfavored"
    ELSE "even"

TypeRank(t) == CHOOSE i \in 1..Len(DECK_TYPES) : DECK_TYPES[i] = t

\* the cells with enough games, flattened, most games first
build_meta_matchup_summary(matchups, min_matchup_games) ==
    LET pairs == {<<a, d>> : a \in DOMAIN matchups, d \in Range(DECK_TYPES)}
        cells == {pr \in pairs : pr[2] \in DOMAIN matchups[pr[1]]}
        kept == {pr \in cells : matchups[pr[1]][pr[2]].games >= min_matchup_games}
        \* dict order of the matrix: groupby sorts the keys
        before(x, y) == \/ TypeRank(x[1]) < TypeRank(y[1])
                        \/ x[1] = y[1] /\ TypeRank(x[2]) < TypeRank(y[2])
        order == [p \in 1..Cardinality(kept) |->
                    CHOOSE x \in kept :
                        Cardinality({y \in kept : before(y, x)}) = p - 1]
        row(pr) ==
            LET cell == matchups[pr[1]][pr[2]]
            IN  [attacker_type |-> pr[1], defender_type |-> pr[2],
                 games |-> cell.games, wins |-> cell.wins, losses |-> cell.losses,
                 draws |-> cell.draws, win_rate |-> cell.win_rate,
                 advantage_label |-> _label_advantage(cell.win_rate)]
    IN  SortedByGamesDesc(List([p \in 1..Len(order) |-> row(order[p])]))

build_meta_llm_tables_node(mt, meta, llm, nts) ==
    LET matchups == DictGet(meta, "deck_type_matchups", EmptyDict)
    IN  IF Len(mt) = 0
        THEN [meta_llm_tables |-> llm,
              notes |-> Append(nts, Note("build_meta_llm_tables: no meta_table", 0))]
        ELSE LET deck_summary == build_meta_deck_summary(mt, MIN_GAMES_PER_TYPE)
                 matchup_summary == build_meta_matchup_summary(matchups, MIN_MATCHUP_GAMES)
             IN  [meta_llm_tables |->
                     [meta_deck_summary |-> deck_summary,
                      meta_matchup_summary |-> matchup_summary],
                  notes |-> Append(nts, Note("build_meta_llm_tables: built",
                                             Len(deck_summary)))]

\* the charts are rendered outside the model: plots records which were made
generate_meta_plots_node(meta, llm, nts) ==
    LET deck_summary == DictGet(llm, "meta_deck_summary", <<>>)
        matchup_summary == DictGet(llm, "meta_matchup_summary", <<>>)
        old == DictGet(meta, "plots", {})
        deck_plots == IF Len(deck_summary) > 0
                      THEN {"meta_deck_types_pie", "meta_deck_types_winrate_bar"}
                      ELSE {}
        matchup_plots == IF Len(matchup_summary) > 0
                         THEN {"meta_matchups_by_deck"} ELSE {}
        plots == old \cup deck_plots \cup matchup_plots
    IN  [meta_analytics |->
            [k \in DOMAIN meta \cup {"plots"} |->
                IF k = "plots" THEN plots ELSE meta[k]],
         notes |-> Append(Append(nts,
                      Note(IF Len(deck_summary) > 0
                           THEN "generate_meta_plots: created deck-type plots"
                           ELSE "generate_meta_plots: no meta_deck_summary",
                           Len(deck_summary))),
                      Note(IF Len(matchup_summary) > 0
                           THEN "generate_meta_plots: generated per-deck matchup charts"
                           ELSE "generate_meta_plots: no meta_matchup_summary",
                           Len(matchup_summary)))]


\* ------------------------------------------------------------------------
\* The graph of build_meta_graph: one action per node
\* ------------------------------------------------------------------------
Init ==
    /\ world \in Worlds
    /\ rng \in 0..(NumSeeds - 1)
    /\ pc = "fetch_top_players"
    \* graph.invoke({}): every key is absent and reads as its default
    /\ top_players = <<>>
    /\ selected_players = <<>>
    /\ used_player_indices = {}
    /\ fetched_player_tags = {}
    /\ meta_raw_battles = <<>>
    /\ meta_analytics = EmptyDict
    /\ is_balanced = FALSE
    /\ loop_count = 0
    /\ stop_decision = ""
    /\ notes = <<>>
    /\ meta_table = <<>>
    /\ meta_llm_tables = EmptyDict
    /\ drawn = <<>>
    /\ merge_log = <<>>
    /\ attempt_log = <<>>

\* the provider call: a list of players, an exception, or None; a response
\* without "items" reads as the default of .get("items", [])
fetch_top_players(w) ==
    CASE w.response = "list" ->
            [raised |-> FALSE, is_none |-> FALSE, value |-> PoolOf(w)]
      [] w.response = "no_items" ->
            [raised |-> FALSE, is_none |-> FALSE, value |-> <<>>]
      [] w.response = "none" ->
            [raised |-> FALSE, is_none |-> TRUE, value |-> <<>>]
      [] OTHER -> [raised |-> TRUE, is_none |-> FALSE, value |-> <<>>]

\* fetch_top_players_node: an exception of the provider, or of len() on
\* None, leaves the graph; any other value becomes the pool
FetchTopPlayers ==
    /\ pc = "fetch_top_players"
    /\ LET got == fetch_top_players(world)
       IN  IF ~got.raised /\ ~got.is_none
           THEN /\ top_players' = got.value
                /\ notes' = Append(notes, Note("Fetched top players from API",
                                               Len(got.value)))
                /\ pc' = "sample_initial"
           ELSE /\ pc' = "raised"
                /\ UNCHANGED <<top_players, notes>>
    /\ selected_players' = <<>>
    /\ used_player_indices' = {}
    /\ fetched_player_tags' = {}
    /\ meta_raw_battles' = <<>>
    /\ meta_analytics' = EmptyDict
    /\ meta_table' = <<>>
    /\ meta_llm_tables' = EmptyDict
    /\ is_balanced' = FALSE
    /\ loop_count' = 0
    /\ stop_decision' = ""
    /\ UNCHANGED <<world, rng, drawn, merge_log, attempt_log>>

SampleInitial ==
    /\ pc = "sample_initial"
    /\ LET out == sample_initial_node(top_players, used_player_indices, notes, rng)
       IN  /\ selected_players' = out.selected_players
           /\ used_player_indices' = out.used_player_indices
           /\ notes' = out.notes
           /\ drawn' = Append(drawn, out.sampled)
           /\ rng' = IF out.drew THEN NextSeed(rng) ELSE rng
    /\ pc' = "fetch_meta_battles"
    /\ UNCHANGED <<top_players, fetched_player_tags, meta_raw_battles,
                   meta_analytics, is_balanced, loop_count, stop_decision,
                   meta_table, meta_llm_tables, world, merge_log, attempt_log>>

\* mutant: the increment sample reseeds the generator from outside the run
SampleMore5_Reseeds ==
    /\ pc = "sample_more_5"
    /\ LET out == sample_more_5_node(top_players, used_player_indices,
                                     loop_count, notes, rng)
       IN  /\ selected_players' = out.selected_players
           /\ used_player_indices' = out.used_player_indices
           /\ loop_count' = out.loop_count
           /\ notes' = out.notes
           /\ drawn' = Append(drawn, out.sampled)
           /\ rng' \in 0..(NumSeeds - 1)
    /\ pc' = "fetch_meta_battles"
    /\ UNCHANGED <<top_players, fetched_player_tags, meta_raw_battles,
                   meta_analytics, is_balanced, stop_decision, meta_table,
                   meta_llm_tables, world, merge_log, attempt_log>>

SampleMore5 ==
    /\ pc = "sample_more_5"
    /\ LET out == sample_more_5_node(top_players, used_player_indices,
                                     loop_count, notes, rng)
       IN  /\ selected_players' = out.selected_players
           /\ used_player_indices' = out.used_player_indices
           /\ loop_count' = out.loop_count
           /\ notes' = out.notes
           /\ drawn' = Append(drawn, out.sampled)
           /\ rng' = IF out.drew THEN NextSeed(rng) ELSE rng
    /\ pc' = "fetch_meta_battles"
    /\ UNCHANGED <<top_players, fetched_player_tags, meta_raw_battles,
                   meta_analytics, is_balanced, stop_decision, meta_table,
                   meta_llm_tables, world, merge_log, attempt_log>>

FetchMetaBattles ==
    /\ pc = "fetch_meta_battles"
    /\ LET out == fetch_meta_battles_node(world, selected_players, notes,
                                          meta_raw_battles, fetched_player_tags)
       IN  /\ meta_raw_battles' = out.meta_raw_battles
           /\ fetched_player_tags' = out.fetched_player_tags
           /\ notes' = out.notes
           /\ merge_log' = merge_log \o out.merged
           /\ attempt_log' = attempt_log \o out.attempts
    /\ pc' = "compute_meta_analytics"
    /\ UNCHANGED <<top_players, selected_players, used_player_indices,
                   meta_analytics, is_balanced, loop_count, stop_decision,
                   meta_table, meta_llm_tables, world, rng, drawn>>

ComputeMetaAnalytics ==
    /\ pc = "compute_meta_analytics"
    /\ LET out == compute_meta_analytics(meta_raw_battles)
       IN  IF out.raised
           THEN /\ pc' = "raised"
                /\ UNCHANGED <<meta_analytics, notes>>
           ELSE /\ meta_analytics' = out.value
                /\ notes' = Append(notes, Note("compute_meta_analytics: games_total",
                                 DictGet(out.value, "games_total", Len(meta_raw_battles))))
                /\ pc' = "check_enough_battles"
    /\ UNCHANGED <<top_players, selected_players, used_player_indices,
                   fetched_player_tags, meta_raw_battles, is_balanced, loop_count,
                   stop_decision, meta_table, meta_llm_tables, world, rng, drawn,
                   merge_log, attempt_log>>

\* mutant: the coverage check also counts the loop
CheckEnoughBattles_CountsLoop ==
    /\ pc = "check_enough_battles"
    /\ LET out == check_enough_battles_node(meta_analytics, meta_raw_battles,
                      top_players, used_player_indices, loop_count, notes)
       IN  /\ is_balanced' = out.is_balanced
           /\ stop_decision' = out.stop_decision
           /\ notes' = out.notes
           /\ pc' = ConditionalEdge(route_after_check_enough(out.stop_decision))
    /\ loop_count' = Min(loop_count + 1, MAX_LOOPS)
    /\ UNCHANGED <<top_players, selected_players, used_player_indices,
                   fetched_player_tags, meta_raw_battles, meta_analytics,
                   meta_table, meta_llm_tables, world, rng, drawn,
                   merge_log, attempt_log>>

\* check_enough_battles_node, then the conditional edge
CheckEnoughBattles ==
    /\ pc = "check_enough_battles"
    /\ LET out == check_enough_battles_node(meta_analytics, meta_raw_battles,
                      top_players, used_player_indices, loop_count, notes)
       IN  /\ is_balanced' = out.is_balanced
           /\ stop_decision' = out.stop_decision
           /\ notes' = out.notes
           /\ pc' = ConditionalEdge(route_after_check_enough(out.stop_decision))
    /\ UNCHANGED <<top_players, selected_players, used_player_indices,
                   fetched_player_tags, meta_raw_battles, meta_analytics,
                   loop_count, meta_table, meta_llm_tables, world, rng, drawn,
                   merge_log, attempt_log>>

StandardizeMetaTable ==
    /\ pc = "standardize_meta_table"
    /\ LET out == standardize_meta_table_node(meta_raw_battles, meta_table, notes)
       IN  /\ meta_table' = out.meta_table
           /\ notes' = out.notes
    /\ pc' = "build_meta_llm_tables"
    /\ UNCHANGED <<top_players, selected_players, used_player_indices,
                   fetched_player_tags, meta_raw_battles, meta_analytics,
                   is_balanced, loop_count, stop_decision, meta_llm_tables,
                   world, rng, drawn, merge_log, attempt_log>>

BuildMetaLlmTables ==
    /\ pc = "build_meta_llm_tables"
    /\ LET out == build_meta_llm_tables_node(meta_table, meta_analytics,
                                             meta_llm_tables, notes)
       IN  /\ meta_llm_tables' = out.meta_llm_tables
           /\ notes' = out.notes
    /\ pc' = "generate_meta_plots"
    /\ UNCHANGED <<top_players, selected_players, used_player_indices,
                   fetched_player_tags, meta_raw_battles, meta_analytics,
                   is_balanced, loop_count, stop_decision, meta_table,
                   world, rng, drawn, merge_log, attempt_log>>

GenerateMetaPlots ==
    /\ pc = "generate_meta_plots"
    /\ LET out == generate_meta_plots_node(meta_analytics, meta_llm_tables, notes)
       IN  /\ meta_analytics' = out.meta_analytics
           /\ notes' = out.notes
    /\ pc' = "END"
    /\ UNCHANGED <<top_players, selected_players, used_player_indices,
                   fetched_player_tags, meta_raw_battles, is_balanced, loop_count,
                   stop_decision, meta_table, meta_llm_tables, world, rng, drawn,
                   merge_log, attempt_log>>

Next ==
    \/ FetchTopPlayers
    \/ SampleInitial
    \/ SampleMore5
    \/ FetchMetaBattles
    \/ ComputeMetaAnalytics
    \/ CheckEnoughBattles
    \/ StandardizeMetaTable
    \/ BuildMetaLlmTables
    \/ GenerateMetaPlots

Spec == Init /\ [][Next]_vars

\* graph.invoke runs the node the edges designate until END is reached or a
\* node raises: a run that stands at a node executes it.  Every node handler
\* is total, so a node step is possible exactly when pc names a node, and a
\* step of Next is exactly a step that moves pc.
Halted == {"END", "raised"}
NodeNames == {"fetch_top_players", "sample_initial", "sample_more_5",
              "fetch_meta_battles", "compute_meta_analytics",
              "check_enough_battles", "standardize_meta_table",
              "build_meta_llm_tables", "generate_meta_plots"}
RunNode == pc \in NodeNames /\ pc' \in NodeNames \cup Halted
FairSpec == Spec /\ WF_pc(RunNode)


\* ------------------------------------------------------------------------
\* compute_meta_analytics on its own: the aggregation node run on any list
\* of battle records
\* ------------------------------------------------------------------------
\* longest list of battle records handed to the aggregation
MaxBattles == 3

BattleRecord(res, my, opp) ==
    [result |-> res, my_cards |-> Deck(8, my), opp_cards |-> Deck(8, opp)]
\* well-formed records, records with a bad value, records that lack a key
BattleInputs ==
    {BattleRecord("win", "Bait", "Cycle"), BattleRecord("loss", "Cycle", "Bait"),
     BattleRecord("draw", "Bait", "Bait"), BattleRecord("win", "Siege", "Hybrid"),
     BattleRecord("unknown", "Bait", "Cycle"),
     [result |-> "loss", my_cards |-> Deck(7, "Cycle"), opp_cards |-> Deck(8, "Siege")],
     [my_cards |-> Deck(8, "Bait"), opp_cards |-> Deck(8, "Cycle")],
     [result |-> "win", opp_cards |-> Deck(8, "Cycle")],
     [result |-> "win", my_cards |-> Deck(8, "Bait")]}
BattleLists == UNION {[1..n -> BattleInputs] : n \in 0..MaxBattles}

AggInit ==
    /\ world \in [null_deck : {"raise", "Hybrid"}]
    /\ rng = 0
    /\ pc = "compute_meta_analytics"
    /\ meta_raw_battles \in BattleLists
    /\ top_players = <<>>
    /\ selected_players = <<>>
    /\ used_player_indices = {}
    /\ fetched_player_tags = {}
    /\ meta_analytics = EmptyDict
    /\ is_balanced = FALSE
    /\ loop_count = 0
    /\ stop_decision = ""
    /\ notes = <<>>
    /\ meta_table = <<>>
    /\ meta_llm_tables = EmptyDict
    /\ drawn = <<>>
    /\ merge_log = <<>>
    /\ attempt_log = <<>>

AggNext == ComputeMetaAnalytics

AggSpec == AggInit /\ [][AggNext]_vars

\* ------------------------------------------------------------------------
\* build_meta_llm_tables on its own: the node run on a matrix with one cell
\* ------------------------------------------------------------------------
\* most games in the cell handed to the summary builder
MaxCellGames == 100

\* cells with 1..MaxCellGames games and any number of wins among them
MatchupCells ==
    {[games |-> q[1], wins |-> q[2], losses |-> q[1] - q[2], draws |-> 0,
      win_rate |-> Float(q[2], q[1])] :
        q \in {r \in (1..MaxCellGames) \X (0..MaxCellGames) : r[2] <= r[1]}}

TableInit ==
    /\ \E cell \in MatchupCells :
          meta_analytics = [deck_type_matchups |->
                               [a \in {"Cycle"} |-> [d \in {"Beatdown"} |-> cell]]]
    /\ meta_table = <<[battle_id |-> 0, battle_index |-> 0, deck_type |-> "Cycle",
                       role |-> "my", result |-> "win", is_win |-> TRUE]>>
    /\ pc = "build_meta_llm_tables"
    /\ world \in [null_deck : {"raise"}]
    /\ rng = 0
    /\ meta_raw_battles = <<>>
    /\ top_players = <<>>
    /\ selected_players = <<>>
    /\ used_player_indices = {}
    /\ fetched_player_tags = {}
    /\ is_balanced = FALSE
    /\ loop_count = 0
    /\ stop_decision = "stop"
    /\ notes = <<>>
    /\ meta_llm_tables = EmptyDict
    /\ drawn = <<>>
    /\ merge_log = <<>>
    /\ attempt_log = <<>>

TableNext == BuildMetaLlmTables

TableSpec == TableInit /\ [][TableNext]_vars

\* ------------------------------------------------------------------------
\* Properties
\* ------------------------------------------------------------------------
LoopNodes == {"sample_initial", "sample_more_5", "fetch_meta_battles",
              "compute_meta_analytics", "check_enough_battles"}
\* the coverage check is the node that ran last
JustChecked == pc \in {"sample_more_5", "standardize_meta_table"}
PoolIndices == 0..(Len(top_players) - 1)
Unused == PoolIndices \ used_player_indices
NoDup(s) == Cardinality(Range(s)) = Len(s)
CeilDiv(a, b) == (a + b - 1) \div b
\* number of sample_more_5 executions so far
Increments == IF Len(drawn) = 0 THEN 0 ELSE Len(drawn) - 1
TotalGames == DictGet(DictGet(meta_analytics, "summary", EmptyDict), "games_played", 0)
CombinedCount(t) ==
    DictGet(DictGet(meta_analytics, "deck_type_counts_my", EmptyDict), t, 0)
    + DictGet(DictGet(meta_analytics, "deck_type_counts_opp", EmptyDict), t, 0)
RequiredArchetypes == Range(DECK_TYPES) \ {"Hybrid"}
EnoughCondition ==
    /\ TotalGames >= 2000
    /\ \A t \in RequiredArchetypes : CombinedCount(t) >= 200

\* C1: in every reachable state of the collection loop loop_count is at most
\* 20, whatever the pool size and whatever the fetches return.
C1_LoopCountAtMost20 == loop_count <= 20
\* the cap is reached: an increment sample has just made loop_count 20
C1_Witness == pc = "fetch_meta_battles" /\ loop_count = 20

\* C2: every run that enters the loop reaches a terminal decision (enough or
\* stop), and at no point have more than
\* min(20, ceil((poolSize - initialSampleSize) / 5)) increment samples run.
C2_IncrementBound ==
    Min(20, CeilDiv(Len(top_players) - Min(250, Len(top_players)), 5))
C3_EnoughIff == JustChecked => (stop_decision = "enough" <=> EnoughCondition)
\* the first check says enough: loop_count 0, no unused player, Hybrid short
C3_Witness ==
    /\ pc = "standardize_meta_table" /\ stop_decision = "enough"
    /\ loop_count = 0 /\ Unused = {} /\ CombinedCount("Hybrid") < 200

\* C4: right after a coverage check at which the enough condition fails, the
\* decision is "stop" if no pool index is unused or loop_count >= 20 and
\* "need_more" otherwise; with no unused index the loop is left.
C4_StopOrNeedMore ==
    JustChecked =>
        /\ ~EnoughCondition =>
              stop_decision = IF Unused = {} \/ loop_count >= 20
                              THEN "stop" ELSE "need_more"
        /\ Unused = {} => pc = "standardize_meta_table"
\* stopped by the exhausted pool, below the loop cap and below the thresholds
C4_Witness ==
    /\ pc = "standardize_meta_table" /\ stop_decision = "stop"
    /\ Unused = {} /\ loop_count \in 1..19 /\ ~EnoughCondition

\* C5: once a coverage check has returned "enough" or "stop" no loop node runs
\* again and nothing the loop writes changes; after "need_more" the nodes run
\* in the order sample_more_5, fetch_meta_battles, compute_meta_analytics,
\* check_enough_battles.
C5_Step ==
    /\ pc = "check_enough_battles" =>
          /\ stop_decision' \in {"enough", "stop", "need_more"}
          /\ stop_decision' \in {"enough", "stop"} => pc' \notin LoopNodes
          /\ stop_decision' = "need_more" => pc' = "sample_more_5"
    /\ pc = "sample_more_5" => pc' = "fetch_meta_battles"
    /\ pc = "fetch_meta_battles" => pc' = "compute_meta_analytics"
    /\ pc = "compute_meta_analytics" => pc' = "check_enough_battles"
    /\ pc \notin LoopNodes \cup {"fetch_top_players"} =>
          /\ pc' \notin LoopNodes
          /\ <<drawn, attempt_log, merge_log, meta_raw_battles, selected_players,
               used_player_indices, fetched_player_tags, loop_count,
               stop_decision>>' =
             <<drawn, attempt_log, merge_log, meta_raw_battles, selected_players,
               used_player_indices, fetched_player_tags, loop_count,
               stop_decision>>
C5_TerminalDecisions == [][C5_Step]_vars
\* a run that looped on need_more, then stopped and finished
C5_Witness == pc = "END" /\ stop_decision = "stop" /\ loop_count >= 2

\* C6: the index lists drawn by the initial sample and by the increment
\* samples have no repeated index and are pairwise disjoint, and
\* used_player_indices is exactly the union of the indices drawn so far.
C6_NeverReselected ==
    /\ \A a \in 1..Len(drawn) : NoDup(drawn[a])
    /\ \A a \in 1..Len(drawn) : \A b \in (a + 1)..Len(drawn) :
          Range(drawn[a]) \cap Range(drawn[b]) = {}
    /\ used_player_indices = UNION {Range(drawn[a]) : a \in 1..Len(drawn)}
\* an initial sample and at least two non-empty increment samples
C6_Witness ==
    /\ Len(drawn) >= 3
    /\ \A a \in 1..Len(drawn) : drawn[a] # <<>>

\* C7: run in any reachable state, the increment sample draws exactly
\* min(5, number of unused indices) distinct unused indices (all of them when
\* fewer than 5 are left, none when none is left) and adds 1 to loop_count
\* exactly when the batch is not empty; every increment sample the graph runs
\* does so.
C7_Handler ==
    LET out == sample_more_5_node(top_players, used_player_indices, loop_count,
                                  notes, rng)
    IN  /\ Len(out.sampled) = Min(5, Cardinality(Unused))
        /\ NoDup(out.sampled)
        /\ Range(out.sampled) \subseteq Unused
        /\ Cardinality(Unused) < 5 => Range(out.sampled) = Unused
        /\ out.selected_players = PlayersAt(top_players, out.sampled)
        /\ out.used_player_indices = used_player_indices \cup Range(out.sampled)
        /\ out.loop_count = IF out.sampled = <<>> THEN loop_count
                            ELSE loop_count + 1
C7_Step ==
    pc = "sample_more_5" =>
        LET batch == drawn'[Len(drawn')]
        IN  /\ Len(batch) = Min(5, Cardinality(Unused))
            /\ Range(batch) \subseteq Unused
            /\ Len(selected_players') = Len(batch)
            /\ loop_count' = IF batch = <<>> THEN loop_count ELSE loop_count + 1
C7_IncrementSample == [](C7_Handler) /\ [][C7_Step]_vars
\* an increment sample has just drawn the last unused indices, fewer than 5
C7_Witness ==
    /\ pc = "fetch_meta_battles" /\ Len(drawn) >= 2
    /\ Len(drawn[Len(drawn)]) \in 1..4 /\ Unused = {}

\* C8: when the provider returns an empty pool the run raises nothing, makes
\* no increment sample and no battle fetch, decides "stop" at the first
\* coverage check with total_games = 0 and loop_count = 0, and ends with no
\* row in the deck summary and none in the matchup summary.
C8_EmptyPool ==
    (world.provider_ok /\ world.size = 0) =>
        /\ pc # "raised"
        /\ pc # "sample_more_5"
        /\ loop_count = 0
        /\ attempt_log = <<>>
        /\ meta_raw_battles = <<>>
        /\ Increments = 0
        /\ pc \in {"standardize_meta_table", "build_meta_llm_tables",
                   "generate_meta_plots", "END"} =>
              stop_decision = "stop" /\ TotalGames = 0
        /\ pc = "END" =>
              /\ meta_table = <<>>
              /\ DictGet(meta_llm_tables, "meta_deck_summary", <<>>) = <<>>
              /\ DictGet(meta_llm_tables, "meta_matchup_summary", <<>>) = <<>>
\* the run over an empty pool has ended
C8_Witness ==
    /\ world.provider_ok /\ world.size = 0 /\ top_players = <<>>
    /\ pc = "END" /\ stop_decision = "stop"

\* C9: no tag's battles are merged twice: the tags merged so far are pairwise
\* different and are exactly fetched_player_tags, and the collected list
\* holds no battle twice, also when a tag sits at two pool indices.
C9_MergedOnce ==
    /\ NoDup(merge_log)
    /\ Range(merge_log) = fetched_player_tags
    /\ pc = "compute_meta_analytics" =>
          Cardinality({meta_raw_battles[i].battle_time :
                          i \in 1..Len(meta_raw_battles)}) = Len(meta_raw_battles)
\* two sampled pool indices carry the same tag, and that tag was merged
C9_Witness ==
    /\ pc = "compute_meta_analytics"
    /\ \E i \in used_player_indices : \E j \in used_player_indices :
          /\ i < j
          /\ top_players[i + 1].tag = top_players[j + 1].tag
          /\ top_players[i + 1].tag \in fetched_player_tags

\* C10: after every fetch step the collected list, and after the aggregation
\* total_games, is no longer than the sum over the fetched tags of
\* min(10, qualifying matches of the tag), and every collected battle is
\* among the 10 most recent qualifying matches of a fetched tag.
C10_Bound ==
    Cardinality({p \in fetched_player_tags \X (1..10) :
                    p[2] <= Min(10, QualLen(world, p[1]))})
C10_AtMostTenEach ==
    /\ pc = "compute_meta_analytics" =>
          /\ Len(meta_raw_battles) <= C10_Bound
          /\ \A i \in 1..Len(meta_raw_battles) :
                LET bt == meta_raw_battles[i].battle_time
                IN  /\ bt[1] \in fetched_player_tags
                    /\ bt[2] \in 1..Min(10, QualLen(world, bt[1]))
    /\ pc = "check_enough_battles" => TotalGames <= C10_Bound
\* a fetched player has more than 10 qualifying matches
C10_Witness ==
    /\ pc = "check_enough_battles" /\ TotalGames > 0
    /\ \E t \in fetched_player_tags : QualLen(world, t) > 10


\* C11: a player whose battle-log fetch or filter fails leaves a note, adds no
\* battle and is not put in fetched_player_tags; the players after it in the
\* batch are still processed, and the fetch step always hands on to the
\* aggregation.
C11_FailedTags == {t \in Range(attempt_log) : FetchFails(world, t)}
C11_State ==
    /\ \A t \in C11_FailedTags :
          /\ t \notin fetched_player_tags
          /\ \A i \in 1..Len(meta_raw_battles) : meta_raw_battles[i].battle_time[1] # t
          /\ \E n \in 1..Len(notes) :
                notes[n] = Note("fetch_meta_battles: error fetching", t)
    /\ pc = "compute_meta_analytics" =>
          \A i \in 1..Len(selected_players) :
              selected_players[i].tag # 0 =>
                  selected_players[i].tag \in Range(attempt_log)
C11_Step == pc = "fetch_meta_battles" => pc' = "compute_meta_analytics"
C11_FailureIsLocal == [](C11_State) /\ [][C11_Step]_vars
\* in one batch a fetch failed and a later player's battles were merged
C11_Witness ==
    /\ pc = "compute_meta_analytics"
    /\ \E i \in 1..Len(selected_players) : \E j \in (i + 1)..Len(selected_players) :
          /\ selected_players[i].tag \in C11_FailedTags
          /\ selected_players[j].tag \in fetched_player_tags
          /\ \E k \in 1..Len(meta_raw_battles) :
                meta_raw_battles[k].battle_time[1] = selected_players[j].tag


\* the matchup matrix of the last aggregation
Matrix == DictGet(meta_analytics, "deck_type_matchups", EmptyDict)
\* the cells of a matrix, as <<attacker, defender>> pairs
CellsOf(m) == {pr \in (DOMAIN m) \X Range(DECK_TYPES) : pr[2] \in DOMAIN m[pr[1]]}
CellAt(m, k) ==
    LET a == DECK_TYPES[((k - 1) \div Len(DECK_TYPES)) + 1]
        d == DECK_TYPES[((k - 1) % Len(DECK_TYPES)) + 1]
    IN  IF a \in DOMAIN m /\ d \in DOMAIN m[a] THEN m[a][d]
        ELSE [games |-> 0, wins |-> 0, losses |-> 0, draws |-> 0, win_rate |-> Zero]
RECURSIVE GamesUpTo(_, _)
GamesUpTo(m, k) == IF k = 0 THEN 0 ELSE CellAt(m, k).games + GamesUpTo(m, k - 1)
\* sum of games over all cells of a matrix whose keys are archetypes
MatrixGames(m) == GamesUpTo(m, Len(DECK_TYPES) * Len(DECK_TYPES))
Aggregated == pc \in {"check_enough_battles", "sample_more_5",
                      "standardize_meta_table", "build_meta_llm_tables",
                      "generate_meta_plots", "END"}

Has8Cards(b, side) == side \in DOMAIN b /\ b[side].size = 8
WellFormedBattle(b) ==
    /\ Has8Cards(b, "my_cards") /\ Has8Cards(b, "opp_cards")
    /\ "result" \in DOMAIN b /\ b.result \in {"win", "loss", "draw"}
WellFormedIndices(bs) == {i \in 1..Len(bs) : WellFormedBattle(bs[i])}
SideCount(side, t) ==
    DictGet(DictGet(meta_analytics, side, EmptyDict), t, 0)

\* C13: at aggregation a collected battle with a deck that has not exactly 8
\* cards, or with a result outside win, loss, draw, adds nothing: total_games,
\* the cells of the matrix and the my-side and opp-side archetype counts
\* count the well-formed battles only.
C13_MalformedExcluded ==
    pc = "check_enough_battles" =>
        LET good == WellFormedIndices(meta_raw_battles) IN
        /\ TotalGames = Cardinality(good)
        /\ MatrixGames(Matrix) = 2 * Cardinality(good)
        /\ \A t \in Range(DECK_TYPES) :
              /\ SideCount("deck_type_counts_my", t) =
                    Cardinality({i \in good :
                        _classify_deck(meta_raw_battles[i].my_cards) = t})
              /\ SideCount("deck_type_counts_opp", t) =
                    Cardinality({i \in good :
                        _classify_deck(meta_raw_battles[i].opp_cards) = t})


\* C14: the aggregation of a non-empty list of battle records never raises,
\* whatever the records lack: it returns a result.
C14_AggregationNeverRaises ==
    Len(meta_raw_battles) > 0 =>
        /\ ~compute_meta_analytics(meta_raw_battles).raised
        /\ pc # "raised"


ZeroCell == [games |-> 0, wins |-> 0, losses |-> 0, draws |-> 0, win_rate |-> Zero]
CellOf(m, a, d) == IF a \in DOMAIN m /\ d \in DOMAIN m[a] THEN m[a][d] ELSE ZeroCell
Bit(b) == IF b THEN 1 ELSE 0
Front(bs) == SubSeq(bs, 1, Len(bs) - 1)
\* the last record of the list has both decks and a result win, loss or draw
LastIsDecided(bs) ==
    /\ Len(bs) > 0
    /\ {"result", "my_cards", "opp_cards"} \subseteq DOMAIN bs[Len(bs)]
    /\ bs[Len(bs)].result \in {"win", "loss", "draw"}
C15_Flip(r) == CASE r = "win" -> "loss" [] r = "loss" -> "win" [] r = "draw" -> "draw"

\* C15: a battle with archetypes A (my) and B (opp) and a result r among win,
\* loss, draw adds to the matrix of the battles before it exactly one game
\* with result r in cell A->B and one game with result flip(r) in cell B->A,
\* and nothing else; flip swaps win and loss, keeps draw, and is its own
\* inverse.
C15_TwoEvents ==
    /\ \A r \in {"win", "loss", "draw"} :
          _flip_result(r) = C15_Flip(r) /\ _flip_result(_flip_result(r)) = r
    /\ (/\ pc = "check_enough_battles"
        /\ LastIsDecided(meta_raw_battles)
        /\ ~compute_meta_analytics(Front(meta_raw_battles)).raised) =>
          LET b == meta_raw_battles[Len(meta_raw_battles)]
              A == _classify_deck(b.my_cards)
              B == _classify_deck(b.opp_cards)
              before ==
                  compute_meta_analytics(Front(meta_raw_battles)).value.deck_type_matchups
              added(a, d, x) == Bit(a = A /\ d = B /\ b.result = x)
                                + Bit(a = B /\ d = A /\ C15_Flip(b.result) = x)
          IN  \A a \in Range(DECK_TYPES) : \A d \in Range(DECK_TYPES) :
                LET new == CellOf(Matrix, a, d)
                    old == CellOf(before, a, d)
                IN  /\ new.games = old.games + Bit(a = A /\ d = B) + Bit(a = B /\ d = A)
                    /\ new.wins = old.wins + added(a, d, "win")
                    /\ new.losses = old.losses + added(a, d, "loss")
                    /\ new.draws = old.draws + added(a, d, "draw")
\* a win of Siege over Hybrid aggregated after at least one other battle
C15_Witness ==
    /\ pc = "check_enough_battles"
    /\ Len(meta_raw_battles) >= 2
    /\ meta_raw_battles[Len(meta_raw_battles)] = BattleRecord("win", "Siege", "Hybrid")
    /\ CellOf(Matrix, "Hybrid", "Siege").losses >= 1


\* C16: every cell of the matchup matrix has games = wins + losses + draws,
\* 0 <= wins <= games, and win_rate = wins / games within [0, 1], which is
\* 0.0 when games = 0.
C16_CellInvariant ==
    Aggregated =>
        \A pr \in CellsOf(Matrix) :
            LET cell == Matrix[pr[1]][pr[2]]
            IN  /\ cell.games = cell.wins + cell.losses + cell.draws
                /\ 0 <= cell.wins /\ cell.wins <= cell.games
                /\ cell.win_rate = IF cell.games > 0
                                   THEN Float(cell.wins, cell.games) ELSE Zero
                /\ FloatLeq(Zero, cell.win_rate)
                /\ FloatLeq(cell.win_rate, Float(1, 1))


IndexPermutations(n) == {f \in [1..n -> 1..n] : \A i, j \in 1..n : f[i] = f[j] => i = j}
Permuted(bs, f) == [i \in 1..Len(bs) |-> bs[f[i]]]

\* C17: the aggregation of a permutation of a list of battles equals the
\* aggregation of the list: it raises for both or for neither, and gives the
\* same matchup matrix, total_games and my-side and opp-side archetype
\* counts, hence the same input to the coverage decision.
C17_OrderIndependent ==
    pc \in {"check_enough_battles", "raised"} =>
        \A f \in IndexPermutations(Len(meta_raw_battles)) :
            LET out == compute_meta_analytics(Permuted(meta_raw_battles, f))
            IN  /\ out.raised = (pc = "raised")
                /\ ~out.raised =>
                      /\ out.value.deck_type_matchups = Matrix
                      /\ out.value.summary.games_played = TotalGames
                      /\ out.value.deck_type_counts_my =
                            meta_analytics.deck_type_counts_my
                      /\ out.value.deck_type_counts_opp =
                            meta_analytics.deck_type_counts_opp
                      /\ InsufficientTypes(out.value) = InsufficientTypes(meta_analytics)
\* three different battles, so six orders, were aggregated
C17_Witness ==
    /\ pc = "check_enough_battles"
    /\ Len(meta_raw_battles) = 3
    /\ Cardinality(Range(meta_raw_battles)) = 3
    /\ Cardinality(CellsOf(Matrix)) >= 3


\* how often a node has run: every run of it appends one of its notes
RunsOf(texts) == Cardinality({n \in 1..Len(notes) : notes[n].text \in texts})
StandardizeRuns ==
    RunsOf({"standardize_meta_table: no battles", "standardize_meta_table: built"})
BuildTablesRuns ==
    RunsOf({"build_meta_llm_tables: no meta_table", "build_meta_llm_tables: built"})

\* C18: standardize_meta_table and build_meta_llm_tables run once per run:
\* never before a coverage check has decided enough or stop, never while the
\* decision is need_more, and in the order standardize_meta_table,
\* build_meta_llm_tables, generate_meta_plots, END.
C18_State ==
    /\ StandardizeRuns <= 1 /\ BuildTablesRuns <= 1
    /\ pc \in {"standardize_meta_table", "build_meta_llm_tables",
               "generate_meta_plots", "END"} => stop_decision \in {"enough", "stop"}
    /\ stop_decision \notin {"enough", "stop"} =>
          StandardizeRuns = 0 /\ BuildTablesRuns = 0
    /\ pc = "standardize_meta_table" => StandardizeRuns = 0 /\ BuildTablesRuns = 0
    /\ pc = "build_meta_llm_tables" => StandardizeRuns = 1 /\ BuildTablesRuns = 0
    /\ pc \in {"generate_meta_plots", "END"} =>
          StandardizeRuns = 1 /\ BuildTablesRuns = 1
C18_Step ==
    /\ pc' = "standardize_meta_table" =>
          pc = "check_enough_battles" /\ stop_decision' \in {"enough", "stop"}
    /\ pc = "standardize_meta_table" => pc' = "build_meta_llm_tables"
    /\ pc = "build_meta_llm_tables" => pc' = "generate_meta_plots"
    /\ pc = "generate_meta_plots" => pc' = "END"
    /\ pc' = "build_meta_llm_tables" => pc = "standardize_meta_table"
    /\ pc' = "generate_meta_plots" => pc = "build_meta_llm_tables"
C18_SummariesOnce == [](C18_State) /\ [][C18_Step]_vars
\* a run that looped, decided enough, and built its summaries once
C18_Witness ==
    /\ pc = "END" /\ stop_decision = "enough" /\ loop_count >= 1
    /\ StandardizeRuns = 1 /\ BuildTablesRuns = 1


\* the matchup summary of the matrix of the last aggregation
MatchupSummary == build_meta_matchup_summary(Matrix, 30)
SummaryBuilt == pc \in {"generate_meta_plots", "END"} /\ Len(meta_table) > 0
RowIsCell(row, m) ==
    LET cell == m[row.attacker_type][row.defender_type]
    IN  /\ row.games = cell.games /\ row.wins = cell.wins
        /\ row.losses = cell.losses /\ row.draws = cell.draws
        /\ row.win_rate = cell.win_rate

\* C19: build_meta_matchup_summary with the threshold of 30 returns one row
\* for each cell of the matrix with games >= 30 and no other row, every row
\* has the games, wins, losses, draws and win_rate of its cell, and the rows
\* are in non-increasing order of games; the table the run stores is that
\* summary.
C19_MatchupSummaryRows ==
    Aggregated =>
        LET rows == MatchupSummary
            kept == {pr \in CellsOf(Matrix) : Matrix[pr[1]][pr[2]].games >= 30}
        IN  /\ \A i \in 1..Len(rows) :
                  /\ <<rows[i].attacker_type, rows[i].defender_type>> \in kept
                  /\ RowIsCell(rows[i], Matrix)
            /\ \A pr \in kept :
                  Cardinality({i \in 1..Len(rows) :
                      rows[i].attacker_type = pr[1] /\ rows[i].defender_type = pr[2]}) = 1
            /\ \A i \in 1..(Len(rows) - 1) : rows[i].games >= rows[i + 1].games
            /\ SummaryBuilt => meta_llm_tables.meta_matchup_summary = rows
\* a stored summary with rows of different sizes and a cell left out
C19_Witness ==
    /\ SummaryBuilt
    /\ \E i, j \in 1..Len(meta_llm_tables.meta_matchup_summary) :
          meta_llm_tables.meta_matchup_summary[i].games
              > meta_llm_tables.meta_matchup_summary[j].games
    /\ \E pr \in CellsOf(Matrix) :
          Matrix[pr[1]][pr[2]].games > 0 /\ Matrix[pr[1]][pr[2]].games < 30


\* C20: the advantage label of a win rate is "favored" exactly when the rate
\* is >= 0.55, "unfavored" exactly when it is <= 0.45 and "even" otherwise;
\* every row of the matchup summary carries the label of its win rate; 65
\* wins in 100 games are "favored" and a rate of 0.50 is "even".
C20_Favored(win_rate) == FloatLeq(Float(55, 100), win_rate)
C20_Unfavored(win_rate) == FloatLeq(win_rate, Float(45, 100))
C20_LabelOk(label, win_rate) ==
    /\ label \in {"favored", "unfavored", "even"}
    /\ label = "favored" <=> C20_Favored(win_rate)
    /\ label = "unfavored" <=> C20_Unfavored(win_rate)
    /\ label = "even" <=> ~C20_Favored(win_rate) /\ ~C20_Unfavored(win_rate)
C20_AdvantageLabel ==
    /\ \A pr \in CellsOf(Matrix) :
          LET win_rate == Matrix[pr[1]][pr[2]].win_rate
          IN  C20_LabelOk(_label_advantage(win_rate), win_rate)
    /\ pc = "generate_meta_plots" =>
          LET rows == meta_llm_tables.meta_matchup_summary
          IN  /\ Len(rows) = Bit(Matrix["Cycle"]["Beatdown"].games >= 30)
              /\ \A i \in 1..Len(rows) :
                    /\ rows[i].win_rate = Matrix["Cycle"]["Beatdown"].win_rate
                    /\ C20_LabelOk(rows[i].advantage_label, rows[i].win_rate)
    /\ _label_advantage(Float(65, 100)) = "favored"
    /\ _label_advantage(Float(50, 100)) = "even"
\* the summary row of a cell with 100 games and 65 wins is labelled favored
C20_Witness ==
    /\ pc = "generate_meta_plots"
    /\ Matrix["Cycle"]["Beatdown"].games = 100
    /\ Matrix["Cycle"]["Beatdown"].wins = 65
    /\ Len(meta_llm_tables.meta_matchup_summary) = 1
    /\ meta_llm_tables.meta_matchup_summary[1].advantage_label = "favored"


FloatAdd(x, y) == Float(x.num * y.den + y.num * x.den, x.den * y.den)
RECURSIVE ShareSum(_, _)
ShareSum(rows, k) ==
    IF k = 0 THEN Zero ELSE FloatAdd(rows[k].meta_share, ShareSum(rows, k - 1))
RECURSIVE GamesSum(_, _)
GamesSum(rows, k) == IF k = 0 THEN 0 ELSE rows[k].games + GamesSum(rows, k - 1)
PostLoop == pc \in {"build_meta_llm_tables", "generate_meta_plots", "END"}

\* C21: for the participant table of a run, build_meta_deck_summary called
\* with 200 returns one row per archetype of the table, with games = wins +
\* losses + draws = the rows of that archetype, meta_share = games / (sum of
\* the rows' games), shares that add up to 1, sample_ok exactly when games
\* >= 200, and non-increasing games; the table the run stores is that list.
C21_DeckSummaryRows ==
    PostLoop =>
        LET rows == build_meta_deck_summary(meta_table, 200)
            types == {meta_table[k].deck_type : k \in 1..Len(meta_table)}
            total == GamesSum(rows, Len(rows))
        IN  /\ {rows[i].deck_type : i \in 1..Len(rows)} = types
            /\ Len(rows) = Cardinality(types)
            /\ \A i \in 1..Len(rows) :
                  /\ rows[i].games = Cardinality({k \in 1..Len(meta_table) :
                                         meta_table[k].deck_type = rows[i].deck_type})
                  /\ rows[i].games = rows[i].wins + rows[i].losses + rows[i].draws
                  /\ rows[i].meta_share = Float(rows[i].games, total)
                  /\ rows[i].sample_ok <=> rows[i].games >= 200
            /\ \A i \in 1..(Len(rows) - 1) : rows[i].games >= rows[i + 1].games
            /\ Len(rows) > 0 => ShareSum(rows, Len(rows)) = Float(1, 1)
            /\ SummaryBuilt => meta_llm_tables.meta_deck_summary = rows
\* a stored summary with a well-sampled and an under-sampled archetype
C21_Witness ==
    /\ SummaryBuilt
    /\ \E i, j \in 1..Len(meta_llm_tables.meta_deck_summary) :
          /\ meta_llm_tables.meta_deck_summary[i].sample_ok
          /\ ~meta_llm_tables.meta_deck_summary[j].sample_ok
          /\ meta_llm_tables.meta_deck_summary[j].games > 0


\* C22: when the aggregation starts, and when the coverage check decides,
\* every player of the batch has been dealt with: it has no tag, or its
\* fetch failed and left nothing, or its tag is fetched and all of its
\* recent battles are in the collected list; the aggregation runs only
\* after a complete fetch step and counts the whole collected list.
C22_Processed(t, times) ==
    \/ t = 0
    \/ /\ t \in Range(attempt_log) /\ FetchFails(world, t)
       /\ t \notin fetched_player_tags
    \/ /\ t \in fetched_player_tags
       /\ \A j \in 1..Min(10, QualLen(world, t)) : <<t, j>> \in times
C22_State ==
    /\ pc \in {"compute_meta_analytics", "check_enough_battles"} =>
          LET times == {meta_raw_battles[k].battle_time :
                           k \in 1..Len(meta_raw_battles)}
          IN  \A i \in 1..Len(selected_players) :
                  C22_Processed(selected_players[i].tag, times)
    /\ pc = "check_enough_battles" => TotalGames = Len(meta_raw_battles)
C22_Step ==
    /\ pc' = "compute_meta_analytics" => pc = "fetch_meta_battles"
    /\ pc' = "check_enough_battles" => pc = "compute_meta_analytics"
C22_BatchBarrier == [](C22_State) /\ [][C22_Step]_vars
\* a coverage check after a batch with a merged, a failed and a tag-less player
C22_Witness ==
    /\ pc = "check_enough_battles"
    /\ \E k \in 1..Len(selected_players) :
          /\ selected_players[k].tag \in fetched_player_tags
          /\ \E i \in 1..(k - 1) : selected_players[i].tag = 0
          /\ \E j \in 1..(k - 1) :
                /\ selected_players[j].tag # 0
                /\ FetchFails(world, selected_players[j].tag)
                /\ selected_players[j].tag \notin fetched_player_tags


\* C23: sampling is deterministic given the generator state: at every
\* sampling step the indices drawn are the sample that the pool, the earlier
\* draws and the current generator state fix, the generator advances by its
\* own rule, and no other step touches the generator, the pool or the
\* fetch results; so two runs with the same pool, seed and fetch results
\* draw the same index lists at every step.
C23_UsedBefore == UNION {Range(drawn[i]) : i \in 1..Len(drawn)}
C23_Population ==
    IF pc = "sample_initial" THEN AllIndices(top_players)
    ELSE LET fresh(i) == i \notin C23_UsedBefore
         IN  SelectSeq(AllIndices(top_players), fresh)
C23_Size ==
    Min(IF pc = "sample_initial" THEN INITIAL_SAMPLE_SIZE ELSE MORE_SAMPLE_SIZE,
        Len(C23_Population))
C23_Step ==
    /\ drawn' # drawn =>
          /\ pc \in {"sample_initial", "sample_more_5"}
          /\ drawn' = Append(drawn, random_sample(C23_Population, C23_Size, rng))
          /\ rng' = IF C23_Size > 0 THEN NextSeed(rng) ELSE rng
    /\ drawn' = drawn => rng' = rng
    /\ pc # "fetch_top_players" => top_players' = top_players
    /\ world' = world
C24_IsPrefix(old, new) ==
    /\ Len(old) <= Len(new)
    /\ SubSeq(new, 1, Len(old)) = old
C24_Step == C24_IsPrefix(meta_raw_battles, meta_raw_battles')
C24_PrefixGrowth == [][C24_Step]_vars
\* a later fetch step has added battles to a non-empty list while a player
\* of its batch failed and another had no tag
C24_Witness ==
    /\ pc = "compute_meta_analytics"
    /\ loop_count >= 1
    /\ \E i, j, k \in 1..Len(selected_players) :
          /\ selected_players[i].tag = 0
          /\ selected_players[j].tag # 0
          /\ FetchFails(world, selected_players[j].tag)
          /\ selected_players[k].tag \in fetched_player_tags
          /\ QualLen(world, selected_players[k].tag) > 0
          /\ Len(meta_raw_battles) > Min(RECENT_CAP, QualLen(world, selected_players[k].tag))


\* C25: when the player-list provider fails or its response is invalid or
\* absent, the run ends in the setup step with an exception and no node of
\* the loop runs: nothing is sampled, no fetch is attempted and no
\* aggregation or coverage check leaves a note.
C25_SetupFailure ==
    ~world.provider_ok =>
        /\ pc \in {"fetch_top_players", "raised"}
        /\ drawn = <<>>
        /\ attempt_log = <<>>
        /\ notes = <<>>
        /\ stop_decision = ""


\* C26: frame effects of the loop's nodes on the keys of the state: a
\* sampling step leaves the collected battles and the fetched tags as they
\* are; a fetch step leaves the used indices and the loop count; the
\* aggregation changes nothing but the analytics and the notes; the coverage
\* check changes nothing but the decision, the balance flag and the notes.
C26_Step ==
    /\ pc \in {"sample_initial", "sample_more_5"} =>
          UNCHANGED <<meta_raw_battles, fetched_player_tags>>
    /\ pc = "fetch_meta_battles" =>
          UNCHANGED <<used_player_indices, loop_count>>
    /\ pc = "compute_meta_analytics" =>
          UNCHANGED <<top_players, selected_players, used_player_indices,
                      fetched_player_tags, meta_raw_battles, is_balanced,
                      loop_count, stop_decision, meta_table, meta_llm_tables>>
    /\ pc = "check_enough_battles" =>
          UNCHANGED <<top_players, selected_players, used_player_indices,
                      fetched_player_tags, meta_raw_battles, meta_analytics,
                      loop_count, meta_table, meta_llm_tables>>
C26_FrameEffects == [][C26_Step]_vars
\* the second round of the loop has been through all four kinds of step
C26_Witness ==
    /\ pc \in {"sample_more_5", "standardize_meta_table"}
    /\ loop_count >= 1
    /\ Len(drawn) >= 2
    /\ Len(meta_raw_battles) > 0
    /\ fetched_player_tags # {}
    /\ stop_decision # ""


\* C27: the matchup matrix of a battle list whose results are all win, loss
\* or draw is mirror-consistent: cell (A, B) exists exactly when cell (B, A)
\* does, both have the same games and draws, the wins of one are the losses
\* of the other, and a cell (A, A) has as many wins as losses and an even
\* number of games.
C27_AllDecided ==
    \A i \in 1..Len(meta_raw_battles) :
        /\ "result" \in DOMAIN meta_raw_battles[i]
        /\ meta_raw_battles[i].result \in {"win", "loss", "draw"}
C27_MirrorConsistent ==
    (Aggregated /\ C27_AllDecided) =>
        \A a, d \in Range(DECK_TYPES) :
            /\ <<a, d>> \in CellsOf(Matrix) <=> <<d, a>> \in CellsOf(Matrix)
            /\ CellOf(Matrix, a, d).games = CellOf(Matrix, d, a).games
            /\ CellOf(Matrix, a, d).wins = CellOf(Matrix, d, a).losses
            /\ CellOf(Matrix, a, d).draws = CellOf(Matrix, d, a).draws
            /\ a = d => /\ CellOf(Matrix, a, a).wins = CellOf(Matrix, a, a).losses
                        /\ CellOf(Matrix, a, a).games % 2 = 0
\* an aggregated list with a cross matchup recorded from both sides and a
\* mirror match
C27_Witness ==
    /\ Aggregated /\ C27_AllDecided
    /\ BattleRecord("win", "Bait", "Cycle") \in Range(meta_raw_battles)
    /\ BattleRecord("loss", "Cycle", "Bait") \in Range(meta_raw_battles)
    /\ CellOf(Matrix, "Bait", "Cycle").wins = 2
    /\ CellOf(Matrix, "Cycle", "Bait").losses = 2
    /\ CellOf(Matrix, "Bait", "Bait").games = 2


\* C28: every need_more decision makes progress: the increment sample runs
\* only after a need_more decision and with an unused player left, it draws
\* at least one index, all of them unused before, so the used indices grow
\* strictly, and it adds one to the loop count; the loop count at a coverage
\* check is the number of checks before it; the "no unused players left"
\* return of the increment sample is never taken.
C28_Checks ==
    RunsOf({"check_enough_battles: enough data", "check_enough_battles: stopping",
            "check_enough_battles: need more data"})
C28_State ==
    /\ pc = "sample_more_5" => stop_decision = "need_more" /\ Unused # {}
    /\ pc = "check_enough_battles" => loop_count = C28_Checks
    /\ RunsOf({"sample_more_5: no unused players left",
               "sample_more_5: WARNING top_players is empty"}) = 0
C28_Step ==
    pc = "sample_more_5" =>
        /\ Len(drawn') = Len(drawn) + 1
        /\ Len(drawn'[Len(drawn')]) >= 1
        /\ Range(drawn'[Len(drawn')]) \subseteq Unused
        /\ used_player_indices' = used_player_indices \cup Range(drawn'[Len(drawn')])
        /\ used_player_indices' # used_player_indices
        /\ loop_count' = loop_count + 1
C28_NeedMoreProgress == [](C28_State) /\ [][C28_Step]_vars
\* the third coverage check of a run, after two need_more decisions
C28_Witness ==
    /\ pc = "check_enough_battles"
    /\ loop_count = 2
    /\ stop_decision = "need_more"
    /\ Len(drawn) = 3


\* C29: at the exit of the loop the three views of an archetype's sample
\* size agree: the games of its deck-summary row (built from the participant
\* table; 0 without a row), the combined my + opponent count the coverage
\* check reads, and the games of its matrix cells summed over all defenders.
C29_SummaryGames(t) ==
    LET rows == build_meta_deck_summary(meta_table, MIN_GAMES_PER_TYPE)
        hit == {i \in 1..Len(rows) : rows[i].deck_type = t}
    IN  IF hit = {} THEN 0 ELSE rows[CHOOSE i \in hit : TRUE].games
RECURSIVE C29_RowGames(_, _, _)
C29_RowGames(m, t, k) ==
    IF k = 0 THEN 0
    ELSE CellOf(m, t, DECK_TYPES[k]).games + C29_RowGames(m, t, k - 1)
C29_ThreeViewsAgree ==
    PostLoop =>
        \A t \in Range(DECK_TYPES) :
            /\ C29_SummaryGames(t) = CombinedCount(t)
            /\ CombinedCount(t) = C29_RowGames(Matrix, t, Len(DECK_TYPES))


\* C30: in a pool whose tags are distinct no tag gets a second fetch attempt
\* in a run, so a failed player is not fetched again; once the fetch step of
\* a batch is over every sampled player with a tag has had exactly one
\* attempt; and after the loop the fetched tags are tags at used indices,
\* and the tags at used indices that are not fetched are exactly those of
\* the tag-less players and of the players whose fetch failed.
C30_DistinctTags == world.provider_ok /\ world.tags \in {"distinct", "gaps"}
C30_UsedTags == {top_players[i + 1].tag : i \in used_player_indices}
C30_OneAttemptEach ==
    C30_DistinctTags =>
        /\ NoDup(attempt_log)
        /\ pc # "fetch_meta_battles" => Range(attempt_log) = C30_UsedTags \ {0}
        /\ pc \in {"standardize_meta_table", "build_meta_llm_tables",
                    "generate_meta_plots", "END"} =>
              /\ fetched_player_tags \subseteq C30_UsedTags
              /\ C30_UsedTags \ fetched_player_tags =
                    {t \in C30_UsedTags : t = 0 \/ FetchFails(world, t)}
\* the loop has ended after an increment; a player of an increment sample
\* failed, a sampled player had no tag, another was fetched
C30_Witness ==
    /\ C30_DistinctTags
    /\ pc = "standardize_meta_table"
    /\ loop_count >= 1
    /\ 0 \in C30_UsedTags
    /\ \E t \in Range(attempt_log) : FetchFails(world, t)
    /\ fetched_player_tags # {}
    /\ \E k \in 2..Len(drawn) : \E i \in Range(drawn[k]) :
          /\ top_players[i + 1].tag # 0
          /\ FetchFails(world, top_players[i + 1].tag)

====
